---------------------------- MODULE Spec2Model ----------------------------
(* A model of gomarkov: a fixed-order Markov chain over token sequences.   *)
(* The chain owns a state pool (string <-> dense index), a sparse          *)
(* frequency table (row index -> column index -> count) and a RWMutex.     *)
(* Spec is the single-threaded program (each call is one step), SpecConc   *)
(* the program with Add running on several threads, one step per           *)
(* statement of its loop body, and queries running in between.             *)
EXTENDS Integers, Sequences, FiniteSets, TLC

VARIABLES Order, statePool, frequencyMat, lock, added, overlapped, last,
          pc, pairs, idx, currentIndex, nextIndex, tmp, snapshot, restored

vars == <<Order, statePool, frequencyMat, lock, added, overlapped, last,
          pc, pairs, idx, currentIndex, nextIndex, tmp, snapshot, restored>>

codecVars == <<snapshot, restored>>

threadVars == <<pc, pairs, idx, currentIndex, nextIndex, tmp>>

----------------------------------------------------------------------------
(* Bounds and input alphabets *)

\* Budget of one run: the sum over the Add calls of len(input)+1.
MaxTokens == 4

\* The same budget for the runs with concurrent Add calls.
ConcMaxTokens == 3

\* Orders a chain is constructed with.
Orders == {1, 2}

\* Tokens the caller passes to Add (none contains the key delimiter).
Tokens == {"a", "b"}

\* Threads that call Add concurrently.
Threads == {1, 2}

StartToken == "^"

EndToken == "$"

Delimiter == "_"

\* Tokens a query may name: the caller's and the two sentinels.
QTokens == Tokens \cup {StartToken, EndToken}

SeqsOfLen(S, n) == [1..n -> S]

SeqsUpTo(S, n) == UNION {SeqsOfLen(S, k) : k \in 0..n}

\* N-grams of exactly the chain's order.
OrderNGrams == SeqsOfLen(QTokens, Order)

\* Tokens of the n-grams of a wrong length.
MisTokens == {"a", EndToken}

\* N-grams a query passes as current: all of the chain's order, and shorter
\* and longer ones up to Order+1.
QNGrams == OrderNGrams \cup SeqsUpTo(MisTokens, Order + 1)

----------------------------------------------------------------------------
(* helpers *)

\* strings.Join(ngram, "_")
RECURSIVE Join(_, _)
Join(s, d) ==
  IF Len(s) = 0 THEN ""
  ELSE IF Len(s) = 1 THEN s[1]
  ELSE s[1] \o d \o Join(Tail(s), d)

key(ngram) == Join(ngram, Delimiter)

array(value, count) == [i \in 1..count |-> value]

MakePairsShort(tokens, order) ==
  [i \in 1..(IF Len(tokens) - order - 1 > 0 THEN Len(tokens) - order - 1 ELSE 0) |->
     [CurrentState |-> SubSeq(tokens, i, i + order - 1),
      NextState    |-> tokens[i + order]]]

\* One pair per index i with 0 <= i < len(tokens)-order.
MakePairs(tokens, order) ==
  [i \in 1..(IF Len(tokens) - order > 0 THEN Len(tokens) - order ELSE 0) |->
     [CurrentState |-> SubSeq(tokens, i, i + order - 1),
      NextState    |-> tokens[i + order]]]

----------------------------------------------------------------------------
(* sparseArray: a map from column index to count; a missing key reads 0,  *)
(* and the nil map of an absent row reads as the empty map.                *)

EmptyRow == [k \in {} |-> 0]

at(arr, k) == IF k \in DOMAIN arr THEN arr[k] ELSE 0

RECURSIVE sumOver(_, _)
sumOver(arr, ks) ==
  IF ks = {} THEN 0
  ELSE LET k == CHOOSE x \in ks : TRUE
       IN  arr[k] + sumOver(arr, ks \ {k})

sum(s) == sumOver(s, DOMAIN s)

lessAscending(p, q) == IF p[2] = q[2] THEN p[1] < q[1] ELSE p[2] < q[2]

\* The comparator of orderedPairs: count descending, then key ascending.
less(p, q) == IF p[2] = q[2] THEN p[1] < q[1] ELSE p[2] > q[2]

\* sort.Slice under less: the pairs are distinct in their keys, so less is
\* a strict total order and the sorted slice is unique whatever order the
\* map iteration produced.
RECURSIVE sortPairs(_)
sortPairs(S) ==
  IF S = {} THEN <<>>
  ELSE LET m == CHOOSE p \in S : \A q \in S \ {p} : less(p, q)
       IN  <<m>> \o sortPairs(S \ {m})

orderedPairs(s) == sortPairs({<<k, s[k]>> : k \in DOMAIN s})

----------------------------------------------------------------------------
(* spool: the interning pool *)

EmptyPool == [stringMap |-> [s \in {} |-> 0], intMap |-> [n \in {} |-> ""]]

\* add: lookup-or-insert; a new key gets the next unused dense index and is
\* recorded in both directions.
spoolAdd(pool, str) ==
  IF str \in DOMAIN pool.stringMap THEN pool
  ELSE LET index == Cardinality(DOMAIN pool.stringMap)
       IN  [stringMap |-> (str :> index) @@ pool.stringMap,
            intMap    |-> (index :> str) @@ pool.intMap]

\* get: pure lookup; index is the zero value when the key is absent.
spoolGet(pool, str) ==
  IF str \in DOMAIN pool.stringMap
  THEN [index |-> pool.stringMap[str], ok |-> TRUE]
  ELSE [index |-> 0, ok |-> FALSE]

----------------------------------------------------------------------------
(* frequencyMat *)

EmptyMat == [r \in {} |-> EmptyRow]

\* chain.frequencyMat[i]: the nil row when i is no key.
rowOf(mat, i) == IF i \in DOMAIN mat THEN mat[i] ELSE EmptyRow

\* if chain.frequencyMat[currentIndex] == nil { ... = make(sparseArray, 0) }
ensureRow(mat, ci) == IF ci \in DOMAIN mat THEN mat ELSE (ci :> EmptyRow) @@ mat

\* chain.frequencyMat[ci][ni] = v
store(mat, ci, ni, v) == [mat EXCEPT ![ci] = (ni :> v) @@ mat[ci]]

incrementUnissuedColumn(mat, ci, ni) ==
  LET m == ensureRow(mat, ci)
  IN  store(m, ci, ni + 1, at(m[ci], ni + 1) + 1)

\* Lines 98-101 as one step (run with the lock held).
increment(mat, ci, ni) ==
  LET m == ensureRow(mat, ci)
  IN  store(m, ci, ni, at(m[ci], ni) + 1)

addPairNextFirst(st, pair) ==
  LET p1 == spoolAdd(st.pool, pair.NextState)
      ni == p1.stringMap[pair.NextState]
      p2 == spoolAdd(p1, key(pair.CurrentState))
      ci == p2.stringMap[key(pair.CurrentState)]
  IN  [pool |-> p2, mat |-> increment(st.mat, ci, ni)]

\* The loop body of Add for one pair.
addPair(st, pair) ==
  LET p1 == spoolAdd(st.pool, key(pair.CurrentState))
      ci == p1.stringMap[key(pair.CurrentState)]
      p2 == spoolAdd(p1, pair.NextState)
      ni == p2.stringMap[pair.NextState]
  IN  [pool |-> p2, mat |-> increment(st.mat, ci, ni)]

RECURSIVE addPairsDroppingLast(_, _, _)
addPairsDroppingLast(st, ps, i) ==
  IF i >= Len(ps) THEN st
  ELSE addPairsDroppingLast(addPair(st, ps[i]), ps, i + 1)

RECURSIVE addPairs(_, _, _)
addPairs(st, ps, i) ==
  IF i > Len(ps) THEN st ELSE addPairs(addPair(st, ps[i]), ps, i + 1)

\* The padded token slice of Add.
padded(input, order) ==
  array(StartToken, order) \o input \o array(EndToken, order)


----------------------------------------------------------------------------
(* Query results.  A probability is the pair num/den of the float64        *)
(* division freq / sum; 0/0 is the NaN the division yields.                *)

NoDraw == [kind |-> "none", n |-> 0]

\* prng.Intn(n): a number in [0,n).  For n <= 0 the interval is empty:
\* math/rand panics, another PRNG may hand back anything (0 here).
Intn(n) ==
  IF n > 0 THEN {[kind |-> "value", n |-> r] : r \in 0..(n - 1)}
  ELSE {[kind |-> "panic", n |-> 0], [kind |-> "value", n |-> 0]}

atStr(m, k) == IF k \in DOMAIN m THEN m[k] ELSE ""

TransitionProbabilityWrongColumn(order, pool, mat, next, current) ==
  IF Len(current) # order
  THEN [num |-> 0, den |-> 1, err |-> "order"]
  ELSE LET c == spoolGet(pool, key(current))
           n == spoolGet(pool, next)
       IN  IF ~c.ok \/ ~n.ok
           THEN [num |-> 0, den |-> 1, err |-> ""]
           ELSE LET arr == rowOf(mat, c.index)
                IN  [num |-> at(arr, c.index), den |-> sum(arr), err |-> ""]

\* Chain.TransitionProbability(next, current)
TransitionProbability(order, pool, mat, next, current) ==
  IF Len(current) # order
  THEN [num |-> 0, den |-> 1, err |-> "order"]
  ELSE LET c == spoolGet(pool, key(current))
           n == spoolGet(pool, next)
       IN  IF ~c.ok \/ ~n.ok
           THEN [num |-> 0, den |-> 1, err |-> ""]
           ELSE LET arr == rowOf(mat, c.index)
                IN  [num |-> at(arr, n.index), den |-> sum(arr), err |-> ""]

RECURSIVE walkSkippingLast(_, _, _)
walkSkippingLast(ps, i, randN) ==
  IF i >= Len(ps) THEN [hit |-> FALSE, key |-> 0]
  ELSE LET r == randN - ps[i][2]
       IN  IF r <= 0 THEN [hit |-> TRUE, key |-> ps[i][1]]
           ELSE walkSkippingLast(ps, i + 1, r)

\* The loop of GenerateDeterministic over the ordered pairs, from pair i on.
RECURSIVE walk(_, _, _)
walk(ps, i, randN) ==
  IF i > Len(ps) THEN [hit |-> FALSE, key |-> 0]
  ELSE LET r == randN - ps[i][2]
       IN  IF r <= 0 THEN [hit |-> TRUE, key |-> ps[i][1]]
           ELSE walk(ps, i + 1, r)

GenResult(val, err, called, arg, reads, fell) ==
  [val |-> val, err |-> err, intnCalled |-> called, intnArg |-> arg,
   reads |-> reads, fell |-> fell]

\* The draws GenerateDeterministic(current, prng) can get from prng: NoDraw
\* when it returns before line 143.
Draws(order, pool, mat, current) ==
  IF Len(current) # order THEN {NoDraw}
  ELSE IF current[Len(current)] = EndToken THEN {NoDraw}
  ELSE LET c == spoolGet(pool, key(current))
       IN  IF ~c.ok THEN {NoDraw} ELSE Intn(sum(rowOf(mat, c.index)))

\* The body of GenerateDeterministic from the pool lookup on.
GenerateKnown(pool, mat, c, d) ==
  LET arr == rowOf(mat, c.index)
      s   == sum(arr)
      w   == walk(orderedPairs(arr), 1, d.n)
  IN  IF d.kind = "panic"
      THEN GenResult("", "panic", TRUE, s, {"pool", "table"}, FALSE)
      ELSE IF w.hit
      THEN GenResult(atStr(pool.intMap, w.key), "", TRUE, s, {"pool", "table"}, FALSE)
      ELSE GenResult("", "", TRUE, s, {"pool", "table"}, TRUE)

GenerateDeterministicIgnoringExists(order, pool, mat, current, d) ==
  IF Len(current) # order
  THEN GenResult("", "order", FALSE, 0, {}, FALSE)
  ELSE IF current[Len(current)] = EndToken
  THEN GenResult("", "", FALSE, 0, {}, FALSE)
  ELSE GenerateKnown(pool, mat, spoolGet(pool, key(current)), d)

GenerateDeterministicLookupFirst(order, pool, mat, current, d) ==
  IF Len(current) # order
  THEN GenResult("", "order", FALSE, 0, {}, FALSE)
  ELSE LET c == spoolGet(pool, key(current))
       IN  IF ~c.ok
           THEN GenResult("", "unknown", FALSE, 0, {"pool"}, FALSE)
           ELSE IF current[Len(current)] = EndToken
           THEN GenResult("", "", FALSE, 0, {"pool"}, FALSE)
           ELSE GenerateKnown(pool, mat, c, d)

GenerateDeterministicEndFirst(order, pool, mat, current, d) ==
  IF Len(current) > 0 /\ current[Len(current)] = EndToken
  THEN GenResult("", "", FALSE, 0, {}, FALSE)
  ELSE IF Len(current) # order
  THEN GenResult("", "order", FALSE, 0, {}, FALSE)
  ELSE LET c == spoolGet(pool, key(current))
       IN  IF ~c.ok
           THEN GenResult("", "unknown", FALSE, 0, {"pool"}, FALSE)
           ELSE GenerateKnown(pool, mat, c, d)

GenerateDeterministicNoEndCheck(order, pool, mat, current, d) ==
  IF Len(current) # order
  THEN GenResult("", "order", FALSE, 0, {}, FALSE)
  ELSE LET c == spoolGet(pool, key(current))
       IN  IF ~c.ok
           THEN GenResult("", "unknown", FALSE, 0, {"pool"}, FALSE)
           ELSE GenerateKnown(pool, mat, c, d)

\* Chain.GenerateDeterministic(current, prng), prng.Intn returning draw d.
GenerateDeterministic(order, pool, mat, current, d) ==
  IF Len(current) # order
  THEN GenResult("", "order", FALSE, 0, {}, FALSE)
  ELSE IF current[Len(current)] = EndToken
  THEN GenResult("", "", FALSE, 0, {}, FALSE)
  ELSE LET c == spoolGet(pool, key(current))
       IN  IF ~c.ok
           THEN GenResult("", "unknown", FALSE, 0, {"pool"}, FALSE)
           ELSE GenerateKnown(pool, mat, c, d)

----------------------------------------------------------------------------
(* The record of the last call made and of what it returned. *)

NoGen == GenResult("", "", FALSE, 0, {}, FALSE)

NoProb == [num |-> 0, den |-> 1, err |-> ""]

Call(op, current, next, draw, prob, gen) ==
  [op |-> op, current |-> current, next |-> next, draw |-> draw,
   prob |-> prob, gen |-> gen]

AddCall == Call("Add", <<>>, "", NoDraw, NoProb, NoGen)

\* (ghost) added: the inputs of the Add calls begun so far, in order;
\* overlapped: some Add began while another was running.
\* The budget a sequence of Add calls has used: len(input)+1 for each.
RECURSIVE used(_)
used(seqs) == IF seqs = <<>> THEN 0 ELSE Len(Head(seqs)) + 1 + used(Tail(seqs))

Inputs(budget) ==
  IF budget - used(added) - 1 < 0 THEN {}
  ELSE SeqsUpTo(Tokens, budget - used(added) - 1)

Idle == \A t \in Threads : pc[t] = "idle"

----------------------------------------------------------------------------
(* The snapshot codec.  A JSON object is the set of its <<key, value>>     *)
(* members; encoding/json writes the int keys of freq_mat as decimal       *)
(* strings (here the sequence of their digits) and parses them back.       *)

DigitChars == <<"0", "1", "2", "3", "4", "5", "6", "7", "8", "9">>

\* strconv.Itoa for n >= 0
RECURSIVE Itoa(_)
Itoa(n) ==
  IF n < 10 THEN <<DigitChars[n + 1]>>
  ELSE Append(Itoa(n \div 10), DigitChars[(n % 10) + 1])

DigitValue(ch) == (CHOOSE i \in 1..10 : DigitChars[i] = ch) - 1

\* strconv.Atoi of a digit string
RECURSIVE Atoi(_)
Atoi(ds) ==
  IF Len(ds) = 0 THEN 0
  ELSE Atoi(SubSeq(ds, 1, Len(ds) - 1)) * 10 + DigitValue(ds[Len(ds)])

encodeRow(row) == {<<Itoa(c), row[c]>> : c \in DOMAIN row}

decodeRow(obj) ==
  [c \in {Atoi(m[1]) : m \in obj} |-> (CHOOSE m \in obj : Atoi(m[1]) = c)[2]]

encodeMat(mat) == {<<Itoa(r), encodeRow(mat[r])>> : r \in DOMAIN mat}

decodeMat(obj) ==
  [r \in {Atoi(m[1]) : m \in obj} |->
     decodeRow((CHOOSE m \in obj : Atoi(m[1]) = r)[2])]

encodeStringMap(sm) == {<<k, sm[k]>> : k \in DOMAIN sm}

decodeStringMap(obj) ==
  [k \in {m[1] : m \in obj} |-> (CHOOSE m \in obj : m[1] = k)[2]]

\* The chainJSON document: its three fields, or bytes that do not parse.
Doc(valid, order, spoolMap, freqMat) ==
  [valid |-> valid, int |-> order, spool_map |-> spoolMap, freq_mat |-> freqMat]

NoDoc == Doc(FALSE, 0, {}, {})

\* Chain.MarshalJSON
MarshalJSON(order, pool, mat) ==
  Doc(TRUE, order, encodeStringMap(pool.stringMap), encodeMat(mat))

\* The loop "for k, v := range obj.SpoolMap { intMap[v] = k }": when two keys
\* carry one index the key that stays is the one the map iteration visits
\* last, any of them.
RECURSIVE InvertedOver(_, _)
InvertedOver(sm, idxs) ==
  IF idxs = {} THEN {EmptyPool.intMap}
  ELSE LET i == CHOOSE x \in idxs : TRUE
       IN  {(i :> k) @@ im : k \in {x \in DOMAIN sm : sm[x] = i},
                             im \in InvertedOver(sm, idxs \ {i})}

InvertedMaps(sm) == InvertedOver(sm, {sm[k] : k \in DOMAIN sm})

Restored(read, doc, err, order, pool, mat) ==
  [read |-> read, doc |-> doc, err |-> err, Order |-> order,
   statePool |-> pool, frequencyMat |-> mat, lock |-> {}]

\* The Chain a snapshot is decoded into, before the call.
ZeroChain == Restored(FALSE, NoDoc, "", 0, EmptyPool, EmptyMat)

UnmarshalJSONWithoutIntMap(doc) ==
  IF ~doc.valid
  THEN {Restored(TRUE, doc, "json", 0, EmptyPool, EmptyMat)}
  ELSE {Restored(TRUE, doc, "", doc.int,
                 [stringMap |-> decodeStringMap(doc.spool_map),
                  intMap |-> EmptyPool.intMap],
                 decodeMat(doc.freq_mat))}

\* Chain.UnmarshalJSON: the chains it can leave behind.
UnmarshalJSON(doc) ==
  IF ~doc.valid
  THEN {Restored(TRUE, doc, "json", 0, EmptyPool, EmptyMat)}
  ELSE LET sm == decodeStringMap(doc.spool_map)
       IN  {Restored(TRUE, doc, "", doc.int,
                     [stringMap |-> sm, intMap |-> im],
                     decodeMat(doc.freq_mat)) : im \in InvertedMaps(sm)}

\* (ghost) of: the chain a snapshot was taken of.
Snapshot(taken, doc, order, pool, mat) ==
  [taken |-> taken, doc |-> doc,
   of |-> [Order |-> order, statePool |-> pool, frequencyMat |-> mat]]

----------------------------------------------------------------------------
(* NewChain(order) *)

Init ==
  /\ Order \in Orders
  /\ statePool = EmptyPool
  /\ frequencyMat = EmptyMat
  /\ lock = {}
  /\ added = <<>>
  /\ overlapped = FALSE
  /\ last = Call("NewChain", <<>>, "", NoDraw, NoProb, NoGen)
  /\ pc = [t \in Threads |-> "idle"]
  /\ pairs = [t \in Threads |-> <<>>]
  /\ idx = [t \in Threads |-> 0]
  /\ currentIndex = [t \in Threads |-> 0]
  /\ nextIndex = [t \in Threads |-> 0]
  /\ tmp = [t \in Threads |-> 0]
  /\ snapshot = Snapshot(FALSE, NoDoc, 0, EmptyPool, EmptyMat)
  /\ restored = ZeroChain

----------------------------------------------------------------------------
(* The single-threaded program: each call is one step. *)

\* Chain.Add(input), start to return.
Add(input) ==
  /\ Idle
  /\ LET st == addPairs([pool |-> statePool, mat |-> frequencyMat],
                        MakePairs(padded(input, Order), Order), 1)
     IN  /\ statePool' = st.pool
         /\ frequencyMat' = st.mat
  /\ added' = Append(added, input)
  /\ last' = AddCall
  /\ UNCHANGED <<Order, lock, overlapped>>
  /\ UNCHANGED threadVars
  /\ UNCHANGED codecVars

QueryTransitionProbabilityInterning(next, current) ==
  /\ last' = Call("TransitionProbability", current, next, NoDraw,
                  TransitionProbability(Order, statePool, frequencyMat, next, current),
                  NoGen)
  /\ statePool' = spoolAdd(statePool, next)
  /\ UNCHANGED <<Order, frequencyMat, lock, added, overlapped>>
  /\ UNCHANGED threadVars
  /\ UNCHANGED codecVars

\* A call of Chain.TransitionProbability(next, current): it takes no lock.
QueryTransitionProbability(next, current) ==
  /\ last' = Call("TransitionProbability", current, next, NoDraw,
                  TransitionProbability(Order, statePool, frequencyMat, next, current),
                  NoGen)
  /\ UNCHANGED <<Order, statePool, frequencyMat, lock, added, overlapped>>
  /\ UNCHANGED threadVars
  /\ UNCHANGED codecVars

QueryGenerateMakingRow(current) ==
  /\ \E d \in Draws(Order, statePool, frequencyMat, current) :
       last' = Call("GenerateDeterministic", current, "", d, NoProb,
                    GenerateDeterministic(Order, statePool, frequencyMat, current, d))
  /\ frequencyMat' = ensureRow(frequencyMat, spoolGet(statePool, key(current)).index)
  /\ UNCHANGED <<Order, statePool, lock, added, overlapped>>
  /\ UNCHANGED threadVars
  /\ UNCHANGED codecVars

\* A call of Chain.GenerateDeterministic(current, prng): it takes no lock.
QueryGenerate(current) ==
  /\ \E d \in Draws(Order, statePool, frequencyMat, current) :
       last' = Call("GenerateDeterministic", current, "", d, NoProb,
                    GenerateDeterministic(Order, statePool, frequencyMat, current, d))
  /\ UNCHANGED <<Order, statePool, frequencyMat, lock, added, overlapped>>
  /\ UNCHANGED threadVars
  /\ UNCHANGED codecVars

DoAdd == \E input \in Inputs(MaxTokens) : Add(input)

DoTransitionProbability ==
  \E current \in QNGrams : \E next \in QTokens :
    QueryTransitionProbability(next, current)

DoGenerate == \E current \in QNGrams : QueryGenerate(current)

Next == DoAdd \/ DoTransitionProbability \/ DoGenerate

Spec == Init /\ [][Next]_vars

----------------------------------------------------------------------------
(* Add on several threads: one step per statement of the loop body.  The   *)
(* pool's add is one step (the pool serialises its own operations), the    *)
(* count increment is a read and a write made between Lock and Unlock.     *)

pairOf(t) == pairs[t][idx[t]]

\* Lines 86-93: pad, make the pairs, enter the loop.
AddBegin(t, input) ==
  /\ pc[t] = "idle"
  /\ pairs' = [pairs EXCEPT ![t] = MakePairs(padded(input, Order), Order)]
  /\ idx' = [idx EXCEPT ![t] = 1]
  /\ pc' = [pc EXCEPT ![t] = IF Len(pairs'[t]) >= 1 THEN "internCurrent" ELSE "idle"]
  /\ added' = Append(added, input)
  /\ overlapped' = (overlapped \/ \E u \in Threads \ {t} : pc[u] # "idle")
  /\ last' = AddCall
  /\ UNCHANGED <<Order, statePool, frequencyMat, lock, currentIndex, nextIndex, tmp>>
  /\ UNCHANGED codecVars

\* Line 95: currentIndex := chain.statePool.add(pair.CurrentState.key())
AddInternCurrent(t) ==
  /\ pc[t] = "internCurrent"
  /\ statePool' = spoolAdd(statePool, key(pairOf(t).CurrentState))
  /\ currentIndex' = [currentIndex EXCEPT ![t] = statePool'.stringMap[key(pairOf(t).CurrentState)]]
  /\ pc' = [pc EXCEPT ![t] = "internNext"]
  /\ last' = AddCall
  /\ UNCHANGED <<Order, frequencyMat, lock, added, overlapped, pairs, idx, nextIndex, tmp>>
  /\ UNCHANGED codecVars

\* Line 96: nextIndex := chain.statePool.add(pair.NextState)
AddInternNext(t) ==
  /\ pc[t] = "internNext"
  /\ statePool' = spoolAdd(statePool, pairOf(t).NextState)
  /\ nextIndex' = [nextIndex EXCEPT ![t] = statePool'.stringMap[pairOf(t).NextState]]
  /\ pc' = [pc EXCEPT ![t] = "lock"]
  /\ last' = AddCall
  /\ UNCHANGED <<Order, frequencyMat, lock, added, overlapped, pairs, idx, currentIndex, tmp>>
  /\ UNCHANGED codecVars

AddLockNoExclusion(t) ==
  /\ pc[t] = "lock"
  /\ lock' = lock \cup {t}
  /\ pc' = [pc EXCEPT ![t] = "read"]
  /\ last' = AddCall
  /\ UNCHANGED <<Order, statePool, frequencyMat, added, overlapped, pairs, idx, currentIndex, nextIndex, tmp>>
  /\ UNCHANGED codecVars

\* Line 97: chain.lock.Lock() returns once no other thread holds the lock.
AddLock(t) ==
  /\ pc[t] = "lock"
  /\ lock = {}
  /\ lock' = {t}
  /\ pc' = [pc EXCEPT ![t] = "read"]
  /\ last' = AddCall
  /\ UNCHANGED <<Order, statePool, frequencyMat, added, overlapped, pairs, idx, currentIndex, nextIndex, tmp>>
  /\ UNCHANGED codecVars

\* Lines 98-101: make the row if it is nil, read the count.
AddRead(t) ==
  /\ pc[t] = "read"
  /\ frequencyMat' = ensureRow(frequencyMat, currentIndex[t])
  /\ tmp' = [tmp EXCEPT ![t] = at(rowOf(frequencyMat, currentIndex[t]), nextIndex[t])]
  /\ pc' = [pc EXCEPT ![t] = "write"]
  /\ last' = AddCall
  /\ UNCHANGED <<Order, statePool, lock, added, overlapped, pairs, idx, currentIndex, nextIndex>>
  /\ UNCHANGED codecVars

\* Line 101: write back the count plus one.
AddWrite(t) ==
  /\ pc[t] = "write"
  /\ frequencyMat' = store(frequencyMat, currentIndex[t], nextIndex[t], tmp[t] + 1)
  /\ tmp' = [tmp EXCEPT ![t] = 0]
  /\ pc' = [pc EXCEPT ![t] = "unlock"]
  /\ last' = AddCall
  /\ UNCHANGED <<Order, statePool, lock, added, overlapped, pairs, idx, currentIndex, nextIndex>>
  /\ UNCHANGED codecVars

AddUnlockKeepsLock(t) ==
  /\ pc[t] = "unlock"
  /\ lock' = lock
  /\ IF idx[t] < Len(pairs[t])
     THEN /\ idx' = [idx EXCEPT ![t] = idx[t] + 1]
          /\ pc' = [pc EXCEPT ![t] = "internCurrent"]
          /\ pairs' = pairs
     ELSE /\ idx' = [idx EXCEPT ![t] = 0]
          /\ pc' = [pc EXCEPT ![t] = "idle"]
          /\ pairs' = [pairs EXCEPT ![t] = <<>>]
  /\ currentIndex' = [currentIndex EXCEPT ![t] = 0]
  /\ nextIndex' = [nextIndex EXCEPT ![t] = 0]
  /\ last' = AddCall
  /\ UNCHANGED <<Order, statePool, frequencyMat, added, overlapped, tmp>>
  /\ UNCHANGED codecVars

\* Lines 102, 93: chain.lock.Unlock(), i++, the next pair or return.
AddUnlock(t) ==
  /\ pc[t] = "unlock"
  /\ lock' = lock \ {t}
  /\ IF idx[t] < Len(pairs[t])
     THEN /\ idx' = [idx EXCEPT ![t] = idx[t] + 1]
          /\ pc' = [pc EXCEPT ![t] = "internCurrent"]
          /\ pairs' = pairs
     ELSE /\ idx' = [idx EXCEPT ![t] = 0]
          /\ pc' = [pc EXCEPT ![t] = "idle"]
          /\ pairs' = [pairs EXCEPT ![t] = <<>>]
  /\ currentIndex' = [currentIndex EXCEPT ![t] = 0]
  /\ nextIndex' = [nextIndex EXCEPT ![t] = 0]
  /\ last' = AddCall
  /\ UNCHANGED <<Order, statePool, frequencyMat, added, overlapped, tmp>>
  /\ UNCHANGED codecVars

\* The queries made while Add calls run: from the all-START n-gram, the
\* current state of the first pair of every Add.
ConcNGrams == {array(StartToken, Order)}

ConcNexts == {"a", EndToken}

ThreadBegin == \E t \in Threads : \E input \in Inputs(ConcMaxTokens) : AddBegin(t, input)

ThreadInternCurrent == \E t \in Threads : AddInternCurrent(t)

ThreadInternNext == \E t \in Threads : AddInternNext(t)

ThreadLock == \E t \in Threads : AddLock(t)

ThreadRead == \E t \in Threads : AddRead(t)

ThreadWrite == \E t \in Threads : AddWrite(t)

ThreadUnlock == \E t \in Threads : AddUnlock(t)

ConcTransitionProbability ==
  \E current \in ConcNGrams : \E next \in ConcNexts :
    QueryTransitionProbability(next, current)

ConcGenerate == \E current \in ConcNGrams : QueryGenerate(current)

NextConc ==
  \/ ThreadBegin
  \/ ThreadInternCurrent
  \/ ThreadInternNext
  \/ ThreadLock
  \/ ThreadRead
  \/ ThreadWrite
  \/ ThreadUnlock
  \/ ConcTransitionProbability
  \/ ConcGenerate

SpecConc == Init /\ [][NextConc]_vars

----------------------------------------------------------------------------
(* What the Add calls recorded, told from their inputs alone. *)

\* The windows of the padded input whose first Order tokens are state and
\* whose last token is next.
WindowsIn(input, state, next) ==
  LET p == padded(input, Order)
  IN  Cardinality({i \in 1..(Len(input) + Order) :
                     /\ SubSeq(p, i, i + Order - 1) = state
                     /\ p[i + Order] = next})

RECURSIVE WindowCount(_, _, _)
WindowCount(seqs, state, next) ==
  IF seqs = <<>> THEN 0
  ELSE WindowsIn(Head(seqs), state, next) + WindowCount(Tail(seqs), state, next)

RECURSIVE TotalWindows(_)
TotalWindows(seqs) ==
  IF seqs = <<>> THEN 0
  ELSE Len(Head(seqs)) + Order + TotalWindows(Tail(seqs))

\* current occurred as the current state of a window of some Add.
Occurred(current) == \E next \in QTokens : WindowCount(added, current, next) > 0

\* The count the table holds for current -> next.
Count(current, next) ==
  LET c == spoolGet(statePool, key(current))
      n == spoolGet(statePool, next)
  IN  IF c.ok /\ n.ok THEN at(rowOf(frequencyMat, c.index), n.index) ELSE 0

\* The row the table holds for current (empty when there is none).
Row(current) ==
  LET c == spoolGet(statePool, key(current))
  IN  IF c.ok THEN rowOf(frequencyMat, c.index) ELSE EmptyRow

RECURSIVE TableTotal(_)
TableTotal(rows) ==
  IF rows = {} THEN 0
  ELSE LET r == CHOOSE x \in rows : TRUE
       IN  sum(frequencyMat[r]) + TableTotal(rows \ {r})

\* Every string a query can pass as next and get a non-zero answer for.
NextStrings == QTokens \cup DOMAIN statePool.stringMap

RECURSIVE GCD(_, _)
GCD(a, b) == IF b = 0 THEN a ELSE GCD(b, a % b)

\* The sum of two fractions, in lowest terms; x/0 stays x/0.
RatAdd(x, y) ==
  LET n == x[1] * y[2] + y[1] * x[2]
      d == x[2] * y[2]
      g == GCD(n, d)
  IN  IF g = 0 THEN <<n, d>> ELSE <<n \div g, d \div g>>

RECURSIVE ProbSum(_, _)
ProbSum(current, nexts) ==
  IF nexts = {} THEN <<0, 1>>
  ELSE LET n == CHOOSE x \in nexts : TRUE
           q == TransitionProbability(Order, statePool, frequencyMat, n, current)
       IN  RatAdd(<<q.num, q.den>>, ProbSum(current, nexts \ {n}))

RECURSIVE CountSum(_, _)
CountSum(current, nexts) ==
  IF nexts = {} THEN 0
  ELSE LET n == CHOOSE x \in nexts : TRUE
       IN  Count(current, n) + CountSum(current, nexts \ {n})

IsZero(q) == q.num = 0 /\ q.den # 0

IsNaN(q) == q.num = 0 /\ q.den = 0

----------------------------------------------------------------------------
\* C1: after any sequence of Add calls, for every n-gram of the chain's
\* order with at least one recorded transition, the probabilities
\* TransitionProbability(next, current) over all next strings sum to 1: the
\* counts of the row sum to sum(row), which is positive.
C1_ProbabilitiesSumToOne ==
  \A current \in OrderNGrams :
    Occurred(current) =>
      /\ ProbSum(current, NextStrings) = <<1, 1>>
      /\ CountSum(current, NextStrings) = sum(Row(current))
      /\ sum(Row(current)) > 0

\* A query answered 1/2: START is followed by two different tokens.
C1_Witness ==
  /\ last.op = "TransitionProbability"
  /\ Len(last.current) = Order
  /\ Occurred(last.current)
  /\ last.prob.num = 1
  /\ last.prob.den = 2

\* C2: after any sequence of Add calls, the count of every (state, next) is
\* the number of windows of length Order+1 of the padded inputs that start
\* with state and end with next, and the table holds nothing else: its
\* total is the sum of len(input)+Order over the calls.
C2_CountsAreWindows ==
  Idle =>
    /\ \A current \in OrderNGrams : \A next \in QTokens :
         Count(current, next) = WindowCount(added, current, next)
    /\ TableTotal(DOMAIN frequencyMat) = TotalWindows(added)

\* Order 1, Add([a, b]): START->a, a->b, b->END, each once.
C2_Witness ==
  /\ Order = 1
  /\ added = << <<"a", "b">> >>
  /\ Count(<<StartToken>>, "a") = 1
  /\ Count(<<"a">>, "b") = 1
  /\ Count(<<"b">>, EndToken) = 1
  /\ TableTotal(DOMAIN frequencyMat) = 3

\* The result of GenerateDeterministic(current, prng) when prng.Intn
\* returns r.
Generated(current, r) ==
  GenerateDeterministic(Order, statePool, frequencyMat, current,
                        [kind |-> "value", n |-> r])

EndsInEnd(current) == Len(current) > 0 /\ current[Len(current)] = EndToken

\* The n-grams generation samples for: of the chain's order, not ending in
\* END, with a non-empty row.
Sampled == {c \in OrderNGrams : ~EndsInEnd(c) /\ sum(Row(c)) > 0}

\* The draws in [0, sum(row)) for which token t is returned.
DrawsReturning(current, t) ==
  {r \in 0..(sum(Row(current)) - 1) : Generated(current, r).val = t}

\* C3: sampling follows the learned distribution: for every current state
\* with a non-empty row of total T and every token t, the number of draws r
\* in [0, T) that make GenerateDeterministic return t is count(current->t),
\* so every token with a positive count is returned for some draw.
C3_SamplingFollowsCounts ==
  \A current \in Sampled : \A t \in NextStrings :
    /\ Cardinality(DrawsReturning(current, t)) = Count(current, t)
    /\ Count(current, t) > 0 => DrawsReturning(current, t) # {}

\* C6: TransitionProbability(next, current) with len(current) = Order leaves
\* the pool as it was; it returns 0 and no error when the key of current or
\* the string next is not in the pool, and when current has recorded
\* transitions but (current, next) was never added; when the pair was added
\* it returns count(current->next) / sum(row(current)).
C6_TransitionProbabilityResult ==
  [][(last'.op = "TransitionProbability" /\ Len(last'.current) = Order) =>
       LET current == last'.current
           next    == last'.next
           q       == last'.prob
       IN  /\ statePool' = statePool
           /\ (key(current) \notin DOMAIN statePool.stringMap
                 \/ next \notin DOMAIN statePool.stringMap)
                => (IsZero(q) /\ q.err = "")
           /\ (Occurred(current) /\ WindowCount(added, current, next) = 0)
                => (IsZero(q) /\ q.err = "")
           /\ WindowCount(added, current, next) > 0
                => /\ q.num = Count(current, next)
                   /\ q.den = sum(Row(current))
                   /\ q.num = WindowCount(added, current, next)
                   /\ q.den > 0
                   /\ q.err = ""]_vars

\* Order 1 after Add([a, b]): TransitionProbability(b, [a]) = 1/1.
C6_Witness ==
  /\ Order = 1
  /\ added = << <<"a", "b">> >>
  /\ last.op = "TransitionProbability"
  /\ last.current = <<"a">>
  /\ last.next = "b"
  /\ last.prob = [num |-> 1, den |-> 1, err |-> ""]

\* The pairs of a row in the order count descending, then column ascending.
InOrder(ps) ==
  \A i \in 1..Len(ps) : \A j \in 1..Len(ps) :
    i < j => \/ ps[i][2] > ps[j][2]
             \/ (ps[i][2] = ps[j][2] /\ ps[i][1] < ps[j][1])

RECURSIVE Cumulative(_, _)
Cumulative(ps, k) == IF k = 0 THEN 0 ELSE ps[k][2] + Cumulative(ps, k - 1)

\* The first pair at which r minus the counts so far is <= 0.
FirstPair(ps, r) ==
  CHOOSE k \in 1..Len(ps) :
    /\ r - Cumulative(ps, k) <= 0
    /\ \A j \in 1..(k - 1) : r - Cumulative(ps, j) > 0

\* C7: orderedPairs returns every entry of the row once, count descending
\* then column ascending, and for a known current state not ending in END
\* and a draw r in [0, sum(row)) GenerateDeterministic returns the token of
\* the first pair in that order at which r minus the cumulative counts is
\* <= 0.
C7_GenerateWalksOrderedPairs ==
  \A current \in OrderNGrams :
    (~EndsInEnd(current) /\ spoolGet(statePool, key(current)).ok) =>
      LET row == Row(current)
          ps  == orderedPairs(row)
      IN  /\ Len(ps) = Cardinality(DOMAIN row)
          /\ {ps[i] : i \in 1..Len(ps)} = {<<k, row[k]>> : k \in DOMAIN row}
          /\ InOrder(ps)
          /\ \A r \in 0..(sum(row) - 1) :
               LET g == Generated(current, r)
               IN  /\ g.err = ""
                   /\ g.val = statePool.intMap[ps[FirstPair(ps, r)][1]]
                   /\ (last.op = "GenerateDeterministic" /\ last.current = current
                         /\ last.draw = [kind |-> "value", n |-> r])
                        => last.gen = g

\* A draw of 1 from a row of two entries with equal counts: the tie is
\* broken towards the smaller column index.
C7_Witness ==
  /\ last.op = "GenerateDeterministic"
  /\ Len(last.current) = Order
  /\ ~EndsInEnd(last.current)
  /\ last.draw = [kind |-> "value", n |-> 1]
  /\ LET row == Row(last.current)
     IN  /\ Cardinality(DOMAIN row) = 2
         /\ \A k \in DOMAIN row : row[k] = 1
         /\ \E k \in DOMAIN row :
              /\ last.gen.val = statePool.intMap[k]
              /\ \A j \in DOMAIN row : k <= j

\* C4: once all concurrent Add calls have returned, every table entry
\* equals the number of windows the calls contributed to it, and the sum of
\* all counts is the sum over the calls of len(input)+Order: no increment is
\* lost in any interleaving.
C4_NoLostIncrement ==
  (\A t \in Threads : pc[t] = "idle") =>
    /\ TableTotal(DOMAIN frequencyMat) = TotalWindows(added)
    /\ \A current \in OrderNGrams : \A next \in QTokens :
         WindowCount(added, current, next) = Count(current, next)

\* Two Add calls that overlapped have both returned, and both incremented
\* the entry START..START -> END.
C4_Witness ==
  /\ \A t \in Threads : pc[t] = "idle"
  /\ overlapped
  /\ Len(added) = 2
  /\ WindowCount(added, array(StartToken, Order), EndToken) = 2
  /\ Count(array(StartToken, Order), EndToken) = 2

\* C5: interning a pair and incrementing its count are one atomic unit for
\* queries: no TransitionProbability or GenerateDeterministic call made
\* while Add calls run finds the key of current in the pool while the row
\* of its index is absent or still sums to zero.
C5_QueryNeverSeesHalfUpdate ==
  (/\ last.op \in {"TransitionProbability", "GenerateDeterministic"}
   /\ Len(last.current) = Order
   /\ ~EndsInEnd(last.current)
   /\ spoolGet(statePool, key(last.current)).ok)
    => /\ spoolGet(statePool, key(last.current)).index \in DOMAIN frequencyMat
       /\ sum(Row(last.current)) > 0
       /\ ~IsNaN(last.prob)
       /\ last.gen.err # "panic"

C9_NeverZeroTotal ==
  (/\ last.op = "TransitionProbability"
   /\ Len(last.current) = Order
   /\ spoolGet(statePool, key(last.current)).ok
   /\ spoolGet(statePool, last.next).ok)
    => /\ spoolGet(statePool, key(last.current)).index \in DOMAIN frequencyMat
       /\ sum(Row(last.current)) > 0
       /\ last.prob.den > 0

\* C10: GenerateDeterministic with an n-gram of the chain's order that ends
\* in END returns the empty result and no error in every chain state,
\* whether or not the n-gram was seen, and reads neither the pool nor the
\* table nor the randomness source.
C10_EndTokenStopsGeneration ==
  /\ \A current \in OrderNGrams :
       EndsInEnd(current) =>
         /\ Draws(Order, statePool, frequencyMat, current) = {NoDraw}
         /\ GenerateDeterministic(Order, statePool, frequencyMat, current, NoDraw)
              = GenResult("", "", FALSE, 0, {}, FALSE)
  /\ (last.op = "GenerateDeterministic" /\ Len(last.current) = Order
        /\ EndsInEnd(last.current))
       => /\ last.gen.val = ""
          /\ last.gen.err = ""
          /\ ~last.gen.intnCalled
          /\ last.gen.reads = {}
          /\ last.draw = NoDraw

\* After some Add, generation from an n-gram ending in END that no Add went
\* through.
C10_Witness ==
  /\ added # <<>>
  /\ last.op = "GenerateDeterministic"
  /\ Len(last.current) = Order
  /\ EndsInEnd(last.current)
  /\ ~Occurred(last.current)
  /\ ~spoolGet(statePool, key(last.current)).ok
  /\ last.gen = GenResult("", "", FALSE, 0, {}, FALSE)

Queries == {"TransitionProbability", "GenerateDeterministic"}

\* C11: TransitionProbability and GenerateDeterministic return the
\* order-mismatch error for every current n-gram whose length is not the
\* chain's Order, shorter or longer, also when it ends in END; nothing is
\* looked up for a truncated or padded n-gram, and Order, pool and table
\* stay as they were.
C11_OrderMismatch ==
  [][(last'.op \in Queries /\ Len(last'.current) # Order) =>
       /\ last'.op = "TransitionProbability" =>
            last'.prob = [num |-> 0, den |-> 1, err |-> "order"]
       /\ last'.op = "GenerateDeterministic" =>
            (last'.gen = GenResult("", "order", FALSE, 0, {}, FALSE)
               /\ last'.draw = NoDraw)
       /\ Order' = Order
       /\ statePool' = statePool
       /\ frequencyMat' = frequencyMat]_vars

\* Generation from an n-gram one token too long that ends in END, whose
\* first Order tokens are a trained state.
C11_Witness ==
  /\ last.op = "GenerateDeterministic"
  /\ Len(last.current) = Order + 1
  /\ EndsInEnd(last.current)
  /\ Occurred(SubSeq(last.current, 1, Order))
  /\ last.gen.err = "order"

----------------------------------------------------------------------------
(* Snapshots: the chain is marshalled, and a document (the one marshalled  *)
(* or one from elsewhere) is unmarshalled into a second, fresh Chain.      *)

\* Documents that no MarshalJSON of this run wrote: one whose pool maps two
\* keys to one index, one with an invertible pool, one that does not parse.
ForeignDocs ==
  { Doc(TRUE, 1, {<<StartToken, 0>>, <<"a", 1>>, <<EndToken, 1>>},
        {<<Itoa(0), {<<Itoa(1), 1>>}>>}),
    Doc(TRUE, 1, {<<StartToken, 0>>, <<EndToken, 1>>},
        {<<Itoa(0), {<<Itoa(1), 2>>}>>}),
    NoDoc }

\* b, _ := chain.MarshalJSON()
DoMarshal ==
  /\ Idle
  /\ snapshot' = Snapshot(TRUE, MarshalJSON(Order, statePool, frequencyMat),
                          Order, statePool, frequencyMat)
  /\ last' = Call("MarshalJSON", <<>>, "", NoDraw, NoProb, NoGen)
  /\ UNCHANGED <<Order, statePool, frequencyMat, lock, added, overlapped, restored>>
  /\ UNCHANGED threadVars

\* err := new(Chain).UnmarshalJSON(doc)
Unmarshal(doc) ==
  /\ restored' \in UnmarshalJSON(doc)
  /\ last' = Call("UnmarshalJSON", <<>>, "", NoDraw, NoProb, NoGen)
  /\ UNCHANGED <<Order, statePool, frequencyMat, lock, added, overlapped, snapshot>>
  /\ UNCHANGED threadVars

DoUnmarshal == snapshot.taken /\ Unmarshal(snapshot.doc)

DoUnmarshalForeign == \E doc \in ForeignDocs : Unmarshal(doc)

NextSnap == DoAdd \/ DoMarshal \/ DoUnmarshal \/ DoUnmarshalForeign

SpecSnap == Init /\ [][NextSnap]_vars

\* The n-grams and strings a chain can be asked about.
AskNGrams(order) == SeqsOfLen(QTokens, order)

\* C12: unmarshalling the document MarshalJSON wrote of a chain reachable by
\* Add calls gives, without error, a chain with the same Order, the same
\* forward and reverse pool maps and the same table, hence the same
\* TransitionProbability for every (next, current) and the same
\* GenerateDeterministic output for every current and draw.
C12_SnapshotRoundTrip ==
  (restored.read /\ snapshot.taken /\ restored.doc = snapshot.doc) =>
    LET o == snapshot.of
    IN  /\ restored.err = ""
        /\ restored.Order = o.Order
        /\ restored.statePool.stringMap = o.statePool.stringMap
        /\ restored.statePool.intMap = o.statePool.intMap
        /\ restored.frequencyMat = o.frequencyMat
        /\ \A current \in AskNGrams(o.Order) :
             /\ \A next \in QTokens :
                  TransitionProbability(restored.Order, restored.statePool,
                                        restored.frequencyMat, next, current)
                    = TransitionProbability(o.Order, o.statePool, o.frequencyMat,
                                            next, current)
             /\ Draws(restored.Order, restored.statePool, restored.frequencyMat, current)
                  = Draws(o.Order, o.statePool, o.frequencyMat, current)
             /\ \A d \in Draws(o.Order, o.statePool, o.frequencyMat, current) :
                  GenerateDeterministic(restored.Order, restored.statePool,
                                        restored.frequencyMat, current, d)
                    = GenerateDeterministic(o.Order, o.statePool, o.frequencyMat,
                                            current, d)

\* A chain trained on [a, b] at order 2 came back from its snapshot.
C12_Witness ==
  /\ restored.read
  /\ snapshot.taken
  /\ restored.doc = snapshot.doc
  /\ snapshot.of.Order = 2
  /\ added = << <<"a", "b">> >>
  /\ snapshot.of.statePool = statePool
  /\ restored.statePool = statePool
  /\ restored.frequencyMat = frequencyMat
  /\ Cardinality(DOMAIN restored.frequencyMat) = 4

\* The forward pool map of a document is injective.
InjectiveMembers(obj) ==
  \A m1 \in obj : \A m2 \in obj : m1[2] = m2[2] => m1[1] = m2[1]

\* C13: UnmarshalJSON returns an error whenever the forward pool map of the
\* snapshot is not injective (two distinct keys carry the same index).
C13_NonInjectiveRejected ==
  (restored.read /\ restored.doc.valid /\ ~InjectiveMembers(restored.doc.spool_map))
    => restored.err # ""

\* The strings one Add meets, in order: for each window of the padded
\* input the key of its first Order tokens, then its last token.
Encounters(input) ==
  LET p == padded(input, Order)
  IN  [j \in 1..(2 * (Len(input) + Order)) |->
         IF j % 2 = 1
         THEN key(SubSeq(p, (j + 1) \div 2, (j + 1) \div 2 + Order - 1))
         ELSE p[j \div 2 + Order]]

RECURSIVE AllEncounters(_)
AllEncounters(seqs) ==
  IF seqs = <<>> THEN <<>>
  ELSE Encounters(Head(seqs)) \o AllEncounters(Tail(seqs))

\* es without the repeats of a string already met.
RECURSIVE FirstEncounters(_, _)
FirstEncounters(es, met) ==
  IF es = <<>> THEN met
  ELSE FirstEncounters(Tail(es),
                       IF \E i \in 1..Len(met) : met[i] = Head(es)
                       THEN met ELSE Append(met, Head(es)))

PoolIsDenseInOrder ==
  LET first == FirstEncounters(AllEncounters(added), <<>>)
      n     == Cardinality(DOMAIN statePool.stringMap)
  IN  /\ DOMAIN statePool.intMap = 0..(n - 1)
      /\ {statePool.stringMap[str] : str \in DOMAIN statePool.stringMap} = 0..(n - 1)
      /\ \A str \in DOMAIN statePool.stringMap :
           statePool.intMap[statePool.stringMap[str]] = str
      /\ \A i \in DOMAIN statePool.intMap :
           /\ statePool.intMap[i] \in DOMAIN statePool.stringMap
           /\ statePool.stringMap[statePool.intMap[i]] = i
      /\ Len(first) = n
      /\ \A i \in 1..n : statePool.intMap[i - 1] = first[i]

PoolIndicesStay ==
  \A str \in DOMAIN statePool.stringMap :
    /\ str \in DOMAIN statePool'.stringMap
    /\ statePool'.stringMap[str] = statePool.stringMap[str]
    /\ statePool'.intMap[statePool.stringMap[str]] = str

\* C14: after any sequence of Add calls the pool's indices are 0..n-1 for
\* its n strings, the forward and reverse maps are mutual inverses, no step
\* changes the index of a string or hands it to another string, and the
\* indices follow the order of first encounter, the key of a window's
\* current state being met before its next token.
C14_PoolDenseStableInOrder ==
  [](Idle => PoolIsDenseInOrder) /\ [][PoolIndicesStay]_vars

\* Order 1, Add([a]) then Add([b]): START, a, END, b were met in this order.
C14_Witness ==
  /\ Order = 1
  /\ added = << <<"a">>, <<"b">> >>
  /\ statePool.intMap = (0 :> StartToken) @@ (1 :> "a") @@ (2 :> EndToken) @@ (3 :> "b")
  /\ statePool.stringMap["b"] = 3

\* C15: every call of TransitionProbability or GenerateDeterministic,
\* whatever its arguments and outcome, leaves Order, both directions of the
\* pool and the whole table as they were: no unseen state or token is
\* interned and no row is created.
C15_QueriesDoNotMutate ==
  [][last'.op \in Queries =>
       /\ Order' = Order
       /\ statePool'.stringMap = statePool.stringMap
       /\ statePool'.intMap = statePool.intMap
       /\ frequencyMat' = frequencyMat
       /\ DOMAIN frequencyMat' = DOMAIN frequencyMat]_vars

\* A probability query naming a state and a token the trained chain never
\* saw: both are still absent from the pool.
C15_Witness ==
  /\ added # <<>>
  /\ last.op = "TransitionProbability"
  /\ Len(last.current) = Order
  /\ ~spoolGet(statePool, key(last.current)).ok
  /\ ~spoolGet(statePool, last.next).ok
  /\ last.next \in Tokens
  /\ last.prob = [num |-> 0, den |-> 1, err |-> ""]

\* The indices the pool has issued: those it maps to a string that maps
\* back to them.
Issued ==
  {i \in DOMAIN statePool.intMap :
     /\ statePool.intMap[i] \in DOMAIN statePool.stringMap
     /\ statePool.stringMap[statePool.intMap[i]] = i}

\* C16: in every chain state reachable from NewChain by Add calls, every
\* row key and every column key of the frequency table is an index issued
\* by the pool, every stored count is an integer >= 1, and every existing
\* row is non-empty.
C16_TableWellFormed ==
  /\ DOMAIN frequencyMat \subseteq Issued
  /\ \A r \in DOMAIN frequencyMat :
       /\ DOMAIN frequencyMat[r] # {}
       /\ DOMAIN frequencyMat[r] \subseteq Issued
       /\ \A c \in DOMAIN frequencyMat[r] :
            frequencyMat[r][c] \in Nat /\ frequencyMat[r][c] >= 1

\* Order 1, Add([a]) twice: two rows, each holding one count of 2.
C16_Witness ==
  /\ Order = 1
  /\ added = << <<"a">>, <<"a">> >>
  /\ DOMAIN frequencyMat = {0, 1}
  /\ frequencyMat[0] = (1 :> 2)
  /\ frequencyMat[1] = (2 :> 2)
  /\ Issued = {0, 1, 2}

\* C17: GenerateDeterministic only ever asks the randomness source for a
\* draw with a positive upper bound: in every chain state reached by
\* completed Add calls and for every current n-gram, whenever prng.Intn(n)
\* is invoked, n = sum(row(current)) >= 1, so the draw is a value in [0, n).
C17_IntnBoundPositive ==
  Idle =>
    \A current \in QNGrams :
      \A d \in Draws(Order, statePool, frequencyMat, current) :
        LET g == GenerateDeterministic(Order, statePool, frequencyMat, current, d)
        IN  g.intnCalled =>
              /\ Len(current) = Order
              /\ g.intnArg = sum(Row(current))
              /\ g.intnArg >= 1
              /\ d.kind = "value"
              /\ d.n \in 0..(g.intnArg - 1)

\* Order 1, Add([a, a, a]): the row of a totals 3 and a call drew 2 of
\* Intn(3).
C17_Witness ==
  /\ Order = 1
  /\ last.op = "GenerateDeterministic"
  /\ last.current = <<"a">>
  /\ last.gen.intnCalled
  /\ last.gen.intnArg = 3
  /\ last.draw = [kind |-> "value", n |-> 2]

\* The n-grams of the chain's order whose key the pool knows and that do
\* not end in END.
KnownOpen ==
  {c \in OrderNGrams : ~EndsInEnd(c) /\ spoolGet(statePool, key(c)).ok}

\* C18: for a known current state not ending in END and any draw r in
\* [0, sum(row)), GenerateDeterministic returns from inside the loop: the
\* returned token is a string whose count in current's row is positive
\* (TransitionProbability(result, current) > 0), and the trailing
\* fall-through that returns the empty result with no error is never reached.
C18_ReturnsFromLoop ==
  Idle =>
    \A current \in KnownOpen :
      \A r \in 0..(sum(Row(current)) - 1) :
        LET g == Generated(current, r)
            q == TransitionProbability(Order, statePool, frequencyMat,
                                       g.val, current)
        IN  /\ ~g.fell
            /\ g.err = ""
            /\ g.val \in DOMAIN statePool.stringMap
            /\ Count(current, g.val) > 0
            /\ q.err = "" /\ q.num > 0 /\ q.den > 0

\* A call with the largest draw of a row of two different tokens returned
\* one of them.
C18_Witness ==
  /\ last.op = "GenerateDeterministic"
  /\ last.current \in KnownOpen
  /\ Cardinality(DOMAIN Row(last.current)) = 2
  /\ last.draw = [kind |-> "value", n |-> sum(Row(last.current)) - 1]
  /\ ~last.gen.fell
  /\ Count(last.current, last.gen.val) > 0

\* current without its first token, followed by t.
Shifted(current, t) == Tail(current) \o <<t>>

\* The n-grams a generation step from c can lead to, one per draw.
StepsFrom(c) ==
  IF EndsInEnd(c) \/ ~spoolGet(statePool, key(c)).ok THEN {}
  ELSE {Shifted(c, Generated(c, r).val) : r \in 0..(sum(Row(c)) - 1)}

\* Every n-gram a walk that starts in the set frontier can come to.
RECURSIVE WalkStates(_, _)
WalkStates(frontier, seen) ==
  LET new == UNION {StepsFrom(c) : c \in frontier} \ seen
  IN  IF new = {} THEN seen ELSE WalkStates(new, seen \cup new)

AllStart == array(StartToken, Order)

\* C19: generation walks are closed over trained states.  If current
\* occurred as the current state of a window of some Add and
\* GenerateDeterministic(current) returns a sampled token t, the shifted
\* n-gram either ends in END or is itself a known state with a non-empty
\* row; hence, once an Add has completed, no step of a walk started at the
\* all-START n-gram yields the "unknown n-gram" error.
C19_WalkClosed ==
  Idle =>
    /\ \A current \in OrderNGrams :
         (Occurred(current) /\ ~EndsInEnd(current)) =>
           \A r \in 0..(sum(Row(current)) - 1) :
             LET g == Generated(current, r)
                 s == Shifted(current, g.val)
             IN  /\ g.err = ""
                 /\ \/ EndsInEnd(s)
                    \/ /\ spoolGet(statePool, key(s)).ok
                       /\ sum(Row(s)) > 0
                       /\ Occurred(s)
    /\ added # <<>> =>
         \A c \in WalkStates({AllStart}, {AllStart}) :
           \A d \in Draws(Order, statePool, frequencyMat, c) :
             GenerateDeterministic(Order, statePool, frequencyMat, c, d).err = ""

\* Order 2, Add([a, b]): the walks from START START pass through four
\* n-grams and stop at b END.
C19_Witness ==
  /\ Order = 2
  /\ Idle
  /\ added = << <<"a", "b">> >>
  /\ WalkStates({AllStart}, {AllStart}) =
       {<<StartToken, StartToken>>, <<StartToken, "a">>, <<"a", "b">>,
        <<"b", EndToken>>}

----------------------------------------------------------------------------
(* Add calls alone, under fair scheduling.  The Go scheduler runs every    *)
(* runnable goroutine again, and sync.Mutex hands a waiter the lock once   *)
(* it has waited long enough (starvation mode): a step that stays enabled  *)
(* is taken, and so is a Lock() that is enabled again and again.           *)

\* A step of thread t's Add that does not wait for another thread.
AddStep(t) ==
  \/ AddInternCurrent(t)
  \/ AddInternNext(t)
  \/ AddRead(t)
  \/ AddWrite(t)
  \/ AddUnlock(t)

NextAdd ==
  \/ ThreadBegin
  \/ ThreadInternCurrent
  \/ ThreadInternNext
  \/ ThreadLock
  \/ ThreadRead
  \/ ThreadWrite
  \/ ThreadUnlock

Fairness ==
  \A t \in Threads : WF_vars(AddStep(t)) /\ SF_vars(AddLock(t))

SpecAddFair == Init /\ [][NextAdd]_vars /\ Fairness

\* Thread t holds the lock only between its Lock() and its Unlock().
HeldInsideCriticalSection ==
  \A t \in Threads : t \in lock => pc[t] \in {"read", "write", "unlock"}

\* While an Add call is running, some thread can take a step.
SomeAddCanStep ==
  Idle \/ \E t \in Threads : ENABLED (AddStep(t) \/ AddLock(t))

\* The step after an increment releases the lock.
ReleasedAfterIncrement ==
  \A t \in Threads :
    (pc[t] = "unlock" /\ pc'[t] # "unlock") => (t \in lock /\ lock' = {})

\* C20: no operation blocks indefinitely.  With the threads calling Add
\* concurrently under fair scheduling, every Add call eventually returns;
\* the chain lock is released after every increment, is never held across
\* two pairs or when Add returns, and no reachable state is a deadlock.
C20_AddNeverBlocks ==
  /\ [](HeldInsideCriticalSection /\ SomeAddCanStep)
  /\ [][ReleasedAfterIncrement]_vars
  /\ \A t \in Threads : (pc[t] # "idle") ~> (pc[t] = "idle")

\* Thread 1 waits in Lock() while thread 2, on its second pair, holds the
\* lock.
C20_Witness ==
  /\ pc[1] = "lock"
  /\ lock = {2}
  /\ pc[2] = "write"
  /\ idx[2] = 2

============================================================================
